---- MODULE Spec2Model ----
(***************************************************************************)
(* Model of package-omg.py: the key pair resolver                          *)
(* (get_complementary_key_sha256_hash, get_sha256), the header builder     *)
(* (build_header), the header framing and the top-level flow (__main).     *)
(*                                                                         *)
(* A file is its raw bytes, a sequence of small naturals.  A directory is  *)
(* the sequence of the bytes of its regular files, in the order            *)
(* os.listdir yields them; a key file is an index into that sequence       *)
(* (0: the path names no existing file).                                   *)
(***************************************************************************)
EXTENDS Integers, Sequences, FiniteSets, TLC

VARIABLES
    template,   \* parsed content of the header template file (a JSON value)
    dirE,       \* listing of the encryption key's directory
    keyE,       \* index of the encryption key file in dirE, 0 if missing
    dirS,       \* listing of the signing key's directory
    keyS,       \* index of the signing key file in dirS, 0 if missing
    pc,         \* position of the running flow
    ret,        \* value returned (or exception raised) by the last call
    ret0,       \* value returned by the first call of the run
    env,        \* what the environment did to the directories since then
    romg,       \* TRUE iff the file to package exists
    headerStr,  \* the serialized header (json.dumps), a sequence of characters
    tmpfile,    \* the framed-header handoff file: its state and its content
    child,      \* the Payload Encryptor process: its return code and stdout
    status,     \* exit status of the top-level process, -1 while it runs
    omg,        \* the artifact renamed and the name printed
    readback    \* what the reader of the handoff file got

fs == <<template, dirE, keyE, dirS, keyS, romg>>
calls == <<ret, ret0, env>>
flow == <<headerStr, tmpfile, child, status, omg, readback>>
vars == <<fs, calls, flow, pc>>

(***************************************************************************)
(* Bounds of the model.                                                    *)
(***************************************************************************)
MaxFiles == 3        \* files in the directory of the resolver runs
MaxJunk == 1         \* junk files the environment adds to a directory

KeyIds == {1, 2}     \* distinct RSA public components (modulus, exponent)
TwiceEncoded == {1}  \* the keys that also occur in a second encoding

(***************************************************************************)
(* File contents.  Byte 1 tells the kind of key (1 private, 2 public),     *)
(* byte 2 is the public component, an optional trailing byte makes a       *)
(* second encoding of the same key (PEM with a trailing newline, DER).     *)
(* Anything else does not parse as an RSA key.                             *)
(***************************************************************************)
PrivTag == 1
PubTag == 2

JunkBytes == {<< >>, <<0>>}

KeyBytes == {<<t, k>> : t \in {PrivTag, PubTag}, k \in KeyIds}
            \cup {<<t, k, 0>> : t \in {PrivTag, PubTag}, k \in TwiceEncoded}

FileBytes == JunkBytes \cup KeyBytes

\* Sequences over S of length lo..hi
SeqsOf(S, lo, hi) == UNION {[1..n -> S] : n \in lo..hi}

(***************************************************************************)
(* Results of a call: a value or a raised exception.                       *)
(***************************************************************************)
None == [t |-> "none", exc |-> "", d |-> << >>]
Raise(e) == [t |-> "raise", exc |-> e, d |-> << >>]
Hex(s) == [t |-> "hex", exc |-> "", d |-> s]
NoCall == [t |-> "nocall", exc |-> "", d |-> << >>]

(***************************************************************************)
(* RSA.importKey, has_private, publickey                                   *)
(***************************************************************************)
importKey(bytes) ==
    IF Len(bytes) >= 2 /\ bytes[1] \in {PrivTag, PubTag}
    THEN [ok |-> TRUE, priv |-> (bytes[1] = PrivTag), n |-> bytes[2]]
    ELSE [ok |-> FALSE, priv |-> FALSE, n |-> 0]      \* raises ValueError

has_private(key) == key.priv

publickey(key) == [ok |-> TRUE, priv |-> FALSE, n |-> key.n]

(***************************************************************************)
(* get_sha256: the file is read in chunks of CHUNK_SIZE bytes until an     *)
(* empty chunk; every chunk is fed to the hash.  SHA-256 is idealised as   *)
(* collision free: the digest of a message stands for the message, and     *)
(* hexdigest renders it as characters.                                     *)
(***************************************************************************)
CHUNK_SIZE == 16 * 1024

Min(a, b) == IF a < b THEN a ELSE b

RECURSIVE ReadChunks(_, _)
ReadChunks(acc, rest) ==
    LET chunk == SubSeq(rest, 1, Min(CHUNK_SIZE, Len(rest)))
    IN  IF Len(chunk) = 0
        THEN acc
        ELSE ReadChunks(acc \o chunk, SubSeq(rest, Len(chunk) + 1, Len(rest)))

get_sha256(bytes) == ReadChunks(<< >>, bytes)

HexChars == <<"0", "1", "2", "3", "4", "5", "6", "7", "8", "9">>

hexdigest(sha) == [i \in 1..Len(sha) |-> HexChars[sha[i] + 1]]

(***************************************************************************)
(* get_complementary_key_sha256_hash                                       *)
(***************************************************************************)
\* IsComplement without the comparison of the public components
IsComplementAnyKey(rsaKeyInfo, rsakey) ==
    \/ has_private(rsaKeyInfo) /\ ~has_private(rsakey)
    \/ ~has_private(rsaKeyInfo) /\ has_private(rsakey)

\* IsComplement without the has_private tests
IsComplementSameKind(rsaKeyInfo, rsakey) ==
    publickey(rsaKeyInfo) = publickey(rsakey)

\* lines 72-75: the candidate is the complement of the input key
IsComplement(rsaKeyInfo, rsakey) ==
    \/ /\ has_private(rsaKeyInfo)
       /\ ~has_private(rsakey)
       /\ publickey(rsaKeyInfo) = publickey(rsakey)
    \/ /\ ~has_private(rsaKeyInfo)
       /\ has_private(rsakey)
       /\ publickey(rsaKeyInfo) = publickey(rsakey)

\* lines 66-78: the scan of the candidates from position i on
RECURSIVE ScanFrom(_, _, _)

\* the scan without try/except: a candidate that does not parse raises
RECURSIVE ScanFromNoTry(_, _, _)
ScanFromNoTry(rsaKeyInfo, keyFiles, i) ==
    IF i > Len(keyFiles)
    THEN None
    ELSE LET rsakey == importKey(keyFiles[i])
         IN  IF ~rsakey.ok
             THEN Raise("ValueError")
             ELSE IF IsComplement(rsaKeyInfo, rsakey)
                  THEN Hex(hexdigest(get_sha256(keyFiles[i])))
                  ELSE ScanFromNoTry(rsaKeyInfo, keyFiles, i + 1)

\* the scan with "break" for "pass": it ends at a candidate that does not parse
RECURSIVE ScanFromBreak(_, _, _)
ScanFromBreak(rsaKeyInfo, keyFiles, i) ==
    IF i > Len(keyFiles)
    THEN None
    ELSE LET rsakey == importKey(keyFiles[i])
         IN  IF ~rsakey.ok
             THEN None
             ELSE IF IsComplement(rsaKeyInfo, rsakey)
                  THEN Hex(hexdigest(get_sha256(keyFiles[i])))
                  ELSE ScanFromBreak(rsaKeyInfo, keyFiles, i + 1)

ScanFrom(rsaKeyInfo, keyFiles, i) ==
    IF i > Len(keyFiles)
    THEN None
    ELSE LET rsakey == importKey(keyFiles[i])
         IN  IF ~rsakey.ok
             THEN ScanFrom(rsaKeyInfo, keyFiles, i + 1)     \* except: pass
             ELSE IF IsComplement(rsaKeyInfo, rsakey)
                  THEN Hex(hexdigest(get_sha256(keyFiles[i])))
                  ELSE ScanFrom(rsaKeyInfo, keyFiles, i + 1)

\* the resolver with the load of the input key inside the try
get_complementary_key_swallowed(keyFiles, keyFile) ==
    IF keyFile = 0
    THEN None
    ELSE LET rsaKeyInfo == importKey(keyFiles[keyFile])
         IN  IF ~rsaKeyInfo.ok
             THEN None
             ELSE ScanFrom(rsaKeyInfo, keyFiles, 1)

get_complementary_key_sha256_hash(keyFiles, keyFile) ==
    IF keyFile = 0
    THEN Raise("IOError")                                   \* open(keyFile)
    ELSE LET rsaKeyInfo == importKey(keyFiles[keyFile])
         IN  IF ~rsaKeyInfo.ok
             THEN Raise("ValueError")                       \* RSA.importKey
             ELSE ScanFrom(rsaKeyInfo, keyFiles, 1)

(***************************************************************************)
(* The environment: a junk file appears in a directory, at any position    *)
(* of its listing.                                                         *)
(***************************************************************************)
InsertAt(s, p, x) == SubSeq(s, 1, p) \o <<x>> \o SubSeq(s, p + 1, Len(s))

ShiftKey(k, p) == IF k > p THEN k + 1 ELSE k

\* os.listdir yields the same files in another order
Relisted(s, perm) == [i \in 1..Len(s) |-> s[perm[i]]]

MovedKey(k, perm) == IF k = 0 THEN 0 ELSE CHOOSE i \in DOMAIN perm : perm[i] = k

(***************************************************************************)
(* JSON values, as json.loads yields them.  A value inside an object is a  *)
(* leaf [t, n, s]; the template is [t, n, s, o]: n is the number (0 or 1   *)
(* for a boolean, the length for an array), s the characters of a string,  *)
(* o the fields of an object.  "missing" and "invalid" are a template file *)
(* that cannot be opened or is not JSON.                                   *)
(***************************************************************************)
JNull == [t |-> "null", n |-> 0, s |-> << >>]
JNum(n) == [t |-> "num", n |-> n, s |-> << >>]
JStr(s) == [t |-> "str", n |-> 0, s |-> s]

Top(t, n, s, o) == [t |-> t, n |-> n, s |-> s, o |-> o]

NoTemplate == Top("missing", 0, << >>, << >>)
BadTemplate == Top("invalid", 0, << >>, << >>)
TNull == Top("null", 0, << >>, << >>)
TFalse == Top("bool", 0, << >>, << >>)
TZero == Top("num", 0, << >>, << >>)
TEmptyStr == Top("str", 0, << >>, << >>)
TEmptyArr == Top("arr", 0, << >>, << >>)
TEmptyObj == Top("obj", 0, << >>, << >>)
TArr1 == Top("arr", 1, << >>, << >>)
TVersion == Top("obj", 0, << >>, [f \in {"version"} |-> JNum(1)])
TNote == Top("obj", 0, << >>, [f \in {"note"} |-> JStr(<<"1", "#">>)])
TStamped == Top("obj", 0, << >>,
                [f \in {"version", "encryptionKeyHash"} |->
                    IF f = "version" THEN JNum(1) ELSE JStr(<<"0">>)])

FalsyTemplates == {TNull, TFalse, TZero, TEmptyStr, TEmptyArr, TEmptyObj}
TruthyTemplates == {TArr1, TVersion, TNote, TStamped}
Templates == FalsyTemplates \cup TruthyTemplates \cup {NoTemplate, BadTemplate}

\* "if header is not None:" for "if header:"
TruthyIsNotNone(v) == v.t # "null"

\* "if header:" (line 35): Python's truth value of the parsed JSON
Truthy(v) ==
    CASE v.t = "null" -> FALSE
      [] v.t \in {"bool", "num", "arr"} -> v.n # 0
      [] v.t = "str" -> Len(v.s) > 0
      [] v.t = "obj" -> DOMAIN v.o # {}
      [] OTHER -> FALSE

(***************************************************************************)
(* build_header                                                            *)
(***************************************************************************)
Absent == [t |-> "none", exc |-> "", h |-> << >>]
Failed(e) == [t |-> "raise", exc |-> e, h |-> << >>]
Header(h) == [t |-> "header", exc |-> "", h |-> h]
NotBuilt == [t |-> "nocall", exc |-> "", h |-> << >>]

\* the resolver's result as the value stored in the header
AsJson(r) == IF r.t = "hex" THEN JStr(r.d) ELSE JNull

\* header[name] = value on a dict
SetItem(h, name, value) ==
    [f \in DOMAIN h \cup {name} |-> IF f = name THEN value ELSE h[f]]

\* build_header with the two keys exchanged
build_header_swapped(romgHeaderFile, encDir, encryptionKey, sigDir, signingKey) ==
    IF romgHeaderFile.t = "missing" THEN Failed("IOError")
    ELSE IF romgHeaderFile.t = "invalid" THEN Failed("ValueError")
    ELSE IF ~Truthy(romgHeaderFile) THEN Absent
    ELSE LET e == get_complementary_key_sha256_hash(sigDir, signingKey)
             s == get_complementary_key_sha256_hash(encDir, encryptionKey)
         IN  IF e.t = "raise" THEN Failed(e.exc)
             ELSE IF romgHeaderFile.t # "obj" THEN Failed("TypeError")
             ELSE IF s.t = "raise" THEN Failed(s.exc)
             ELSE Header(SetItem(SetItem(romgHeaderFile.o,
                                         "encryptionKeyHash", AsJson(e)),
                                 "signatureKeyHash", AsJson(s)))

build_header(romgHeaderFile, encDir, encryptionKey, sigDir, signingKey) ==
    IF romgHeaderFile.t = "missing" THEN Failed("IOError")          \* open
    ELSE IF romgHeaderFile.t = "invalid" THEN Failed("ValueError")  \* json.loads
    ELSE IF ~Truthy(romgHeaderFile) THEN Absent                     \* falls off the end
    ELSE LET e == get_complementary_key_sha256_hash(encDir, encryptionKey)
             s == get_complementary_key_sha256_hash(sigDir, signingKey)
         IN  IF e.t = "raise" THEN Failed(e.exc)
             ELSE IF romgHeaderFile.t # "obj" THEN Failed("TypeError") \* item assignment
             ELSE IF s.t = "raise" THEN Failed(s.exc)
             ELSE Header(SetItem(SetItem(romgHeaderFile.o,
                                         "encryptionKeyHash", AsJson(e)),
                                 "signatureKeyHash", AsJson(s)))


(***************************************************************************)
(* json.dumps of what build_header returned: None or a dict whose values   *)
(* are numbers, strings and None.  Text is a sequence of characters.       *)
(***************************************************************************)
RECURSIVE DecimalStr(_)
DecimalStr(n) ==
    IF n < 10
    THEN <<HexChars[n + 1]>>
    ELSE DecimalStr(n \div 10) \o <<HexChars[(n % 10) + 1]>>

NullText == <<"n", "u", "l", "l">>

Quoted(s) == <<"\"">> \o s \o <<"\"">>

NameText(f) ==
    CASE f = "version" -> <<"v", "e", "r", "s", "i", "o", "n">>
      [] f = "note" -> <<"n", "o", "t", "e">>
      [] f = "encryptionKeyHash" ->
            <<"e", "n", "c", "r", "y", "p", "t", "i", "o", "n",
              "K", "e", "y", "H", "a", "s", "h">>
      [] f = "signatureKeyHash" ->
            <<"s", "i", "g", "n", "a", "t", "u", "r", "e",
              "K", "e", "y", "H", "a", "s", "h">>

DumpLeaf(v) ==
    CASE v.t = "null" -> NullText
      [] v.t = "num" -> DecimalStr(v.n)
      [] v.t = "str" -> Quoted(v.s)

\* the order in which the dict yields its keys
FieldOrder == <<"version", "note", "encryptionKeyHash", "signatureKeyHash">>

RECURSIVE DumpFields(_, _, _)
DumpFields(h, i, first) ==
    IF i > Len(FieldOrder)
    THEN << >>
    ELSE IF FieldOrder[i] \notin DOMAIN h
         THEN DumpFields(h, i + 1, first)
         ELSE (IF first THEN << >> ELSE <<",", " ">>)
              \o Quoted(NameText(FieldOrder[i])) \o <<":", " ">>
              \o DumpLeaf(h[FieldOrder[i]])
              \o DumpFields(h, i + 1, FALSE)

json_dumps(header) ==
    IF header.t = "header"
    THEN <<"{">> \o DumpFields(header.h, 1, TRUE) \o <<"}">>
    ELSE NullText

(***************************************************************************)
(* The framed header (line 116) and its reader.  The reader is the         *)
(* Payload Encryptor's side of the handoff: it splits at the first '#'     *)
(* and reads as many bytes as the prefix says.                             *)
(***************************************************************************)
\* the length prefix counting the delimiter too
FrameHeaderCountsDelimiter(s) == DecimalStr(Len(s) + 1) \o <<"#">> \o s

FrameHeader(s) == DecimalStr(Len(s)) \o <<"#">> \o s

IsDigit(c) == \E d \in 1..10 : HexChars[d] = c

DigitValue(c) == (CHOOSE d \in 1..10 : HexChars[d] = c) - 1

RECURSIVE ParseInt(_)
ParseInt(s) ==
    IF Len(s) = 0
    THEN 0
    ELSE 10 * ParseInt(SubSeq(s, 1, Len(s) - 1)) + DigitValue(s[Len(s)])

HashAt(f) == {i \in 1..Len(f) : f[i] = "#"}

FirstHash(f) == CHOOSE i \in HashAt(f) : \A j \in HashAt(f) : i <= j

NotRead == [ok |-> FALSE, body |-> << >>, rest |-> << >>]

ReadFramed(f) ==
    IF HashAt(f) = {} THEN NotRead
    ELSE LET p == FirstHash(f)
             prefix == SubSeq(f, 1, p - 1)
         IN  IF p = 1 \/ \E i \in 1..(p - 1) : ~IsDigit(f[i])
             THEN NotRead
             ELSE LET n == ParseInt(prefix)
                  IN  IF p + n > Len(f)
                      THEN NotRead                          \* short read
                      ELSE [ok |-> TRUE,
                            body |-> SubSeq(f, p + 1, p + n),
                            rest |-> SubSeq(f, p + n + 1, Len(f))]

(***************************************************************************)
(* __main: what the Payload Encryptor printed, the artifact's names, and   *)
(* the exit status.                                                        *)
(***************************************************************************)
\* str.replace on a text of tokens
Without(s, tok) == SelectSeq(s, LAMBDA x : x # tok)

Replaced(s, old, new) == [i \in 1..Len(s) |-> IF s[i] = old THEN new ELSE s[i]]

encFname(stdoutstr) == Without(stdoutstr, "\n")                  \* line 131

omgFileName(stdoutstr) == Replaced(encFname(stdoutstr), ".enc", ".omg")  \* line 132

\* line 130
Succeeded(returncode) == returncode = 0

\* every failure reported as status 1
sys_exit_masked(code) == IF code = 0 THEN 0 ELSE 1

\* sys.exit(code): the status the parent of the process sees
sys_exit(code) == code % 256

NoChild == [ran |-> FALSE, rc |-> 0, out |-> << >>]
NoTmp == [state |-> "none", data |-> << >>]
NoOmg == [renamed |-> FALSE, from |-> << >>, to |-> << >>, printed |-> << >>]

\* return codes of the Payload Encryptor: negative when a signal killed it
ReturnCodes == {-9, 0, 1, 2, 255}

Stdouts == {<< >>, <<"a", ".enc", "\n">>, <<"a", "\n">>}

(***************************************************************************)
(* Parts of the initial state shared by the specifications.                *)
(***************************************************************************)
FlowIdle ==
    /\ headerStr = << >>
    /\ tmpfile = NoTmp
    /\ child = NoChild
    /\ status = -1
    /\ omg = NoOmg
    /\ readback = NotRead

NoCalls(r) ==
    /\ ret = r
    /\ ret0 = r
    /\ env = 0

(***************************************************************************)
(* Resolver runs: one directory, the resolver called on a key of it, then  *)
(* junk files added and the resolver called again.                         *)
(***************************************************************************)
InitResolver ==
    /\ dirE \in SeqsOf(FileBytes, 1, MaxFiles)
    /\ keyE \in 1..Len(dirE)
    /\ dirS = << >>
    /\ keyS = 0
    /\ template = NoTemplate
    /\ romg = FALSE
    /\ pc = "idle"
    /\ NoCalls(NoCall)
    /\ FlowIdle

Resolve ==
    /\ pc = "idle"
    /\ ret' = get_complementary_key_sha256_hash(dirE, keyE)
    /\ ret0' = IF env = 0 THEN ret' ELSE ret0
    /\ pc' = "resolved"
    /\ UNCHANGED <<fs, env, flow>>

AddJunk ==
    /\ pc = "resolved"
    /\ env < MaxJunk
    /\ \E j \in JunkBytes, p \in 0..Len(dirE) :
          /\ dirE' = InsertAt(dirE, p, j)
          /\ keyE' = ShiftKey(keyE, p)
    /\ env' = env + 1
    /\ pc' = "idle"
    /\ UNCHANGED <<template, dirS, keyS, romg, ret, ret0, flow>>

NextResolver == Resolve \/ AddJunk

SpecResolver == InitResolver /\ [][NextResolver]_vars

(***************************************************************************)
(* Header builder runs: a template and two key directories, build_header   *)
(* called once.                                                            *)
(***************************************************************************)
MaxBuildFiles == 2   \* files in each key directory of the builder runs

EncBytes == {<<0>>, <<PrivTag, 1>>, <<PubTag, 1>>, <<PubTag, 2>>}
SigBytes == {<<0>>, <<PrivTag, 2>>, <<PubTag, 2, 0>>}

InitBuild ==
    /\ template \in Templates
    /\ dirE \in SeqsOf(EncBytes, 1, MaxBuildFiles)
    /\ keyE \in 0..Len(dirE)
    /\ dirS \in SeqsOf(SigBytes, 1, MaxBuildFiles)
    /\ keyS \in 0..Len(dirS)
    /\ romg = FALSE
    /\ pc = "idle"
    /\ NoCalls(NotBuilt)
    /\ FlowIdle

BuildHeader ==
    /\ pc = "idle"
    /\ ret' = build_header(template, dirE, keyE, dirS, keyS)
    /\ ret0' = IF env = 0 THEN ret' ELSE ret0
    /\ pc' = "built"
    /\ UNCHANGED <<fs, env, flow>>

NextBuild == BuildHeader

SpecBuild == InitBuild /\ [][NextBuild]_vars

(***************************************************************************)
(* Repeated builder runs: build_header is called, the directories are      *)
(* listed in another order, build_header is called again on the same       *)
(* files.                                                                  *)
(***************************************************************************)
RelistEncBytes == {<<0>>, <<PrivTag, 1>>, <<PubTag, 1>>, <<PubTag, 1, 0>>}
RelistSigBytes == {<<PrivTag, 2>>, <<PubTag, 2>>}

InitRelist ==
    /\ template \in {TVersion, TNull}
    /\ dirE \in SeqsOf(RelistEncBytes, 1, MaxFiles)
    /\ keyE \in 1..Len(dirE)
    /\ dirS \in SeqsOf(RelistSigBytes, 1, MaxBuildFiles)
    /\ keyS \in 1..Len(dirS)
    /\ romg = FALSE
    /\ pc = "idle"
    /\ NoCalls(NotBuilt)
    /\ FlowIdle

Relist ==
    /\ pc = "built"
    /\ env = 0
    /\ \E pe \in Permutations(1..Len(dirE)), ps \in Permutations(1..Len(dirS)) :
          /\ dirE' = Relisted(dirE, pe)
          /\ keyE' = MovedKey(keyE, pe)
          /\ dirS' = Relisted(dirS, ps)
          /\ keyS' = MovedKey(keyS, ps)
    /\ env' = 1
    /\ pc' = "idle"
    /\ UNCHANGED <<template, romg, ret, ret0, flow>>

NextRelist == BuildHeader \/ Relist

SpecRelist == InitRelist /\ [][NextRelist]_vars

(***************************************************************************)
(* The top-level flow, __main, after the arguments are parsed.  Both keys  *)
(* live in one directory.                                                  *)
(***************************************************************************)
MaxMainFiles == 2    \* files in the key directory of the top-level runs

MainBytes == {<<0>>, <<PrivTag, 1>>, <<PubTag, 1>>}

InitMain ==
    /\ template \in {TVersion, TNote, TNull, BadTemplate, NoTemplate}
    /\ dirE \in SeqsOf(MainBytes, 1, MaxMainFiles)
    /\ keyE \in 0..Len(dirE)
    /\ dirS = dirE
    /\ keyS \in 0..Len(dirS)
    /\ romg \in BOOLEAN
    /\ pc = "start"
    /\ NoCalls(NotBuilt)
    /\ FlowIdle

\* lines 96-107: a path that names no file ends the process with status 1
CheckArgs ==
    /\ pc = "start"
    /\ IF ~romg \/ template.t = "missing" \/ keyE = 0 \/ keyS = 0
       THEN /\ status' = 1
            /\ pc' = "exited"
       ELSE /\ status' = status
            /\ pc' = "checked"
    /\ UNCHANGED <<fs, calls, headerStr, tmpfile, child, omg, readback>>

\* lines 114-119: build the header, frame it, create the handoff file and
\* write it.  An exception of build_header or of the write ends the process.
WriteHeader ==
    /\ pc = "checked"
    /\ ret' = build_header(template, dirE, keyE, dirS, keyS)
    /\ IF ret'.t = "raise"
       THEN /\ status' = 1
            /\ pc' = "exited"
            /\ UNCHANGED <<headerStr, tmpfile>>
       ELSE /\ headerStr' = FrameHeader(json_dumps(ret'))
            /\ \E written \in BOOLEAN :
                  IF written
                  THEN /\ tmpfile' = [state |-> "exists", data |-> headerStr']
                       /\ status' = status
                       /\ pc' = "written"
                  ELSE /\ tmpfile' = [state |-> "exists", data |-> << >>]
                       /\ status' = 1
                       /\ pc' = "exited"
    /\ UNCHANGED <<fs, ret0, env, child, omg, readback>>

\* lines 121-128: start the Payload Encryptor and wait for it.  Popen raises
\* when the script cannot be executed.
RunEncryptor ==
    /\ pc = "written"
    /\ \E started \in BOOLEAN :
          IF started
          THEN /\ \E rc \in ReturnCodes, out \in Stdouts :
                     child' = [ran |-> TRUE, rc |-> rc, out |-> out]
               /\ status' = status
               /\ pc' = "waited"
          ELSE /\ child' = child
               /\ status' = 1
               /\ pc' = "exited"
    /\ UNCHANGED <<fs, calls, headerStr, tmpfile, omg, readback>>

\* line 129
RemoveTmp ==
    /\ pc = "waited"
    /\ tmpfile' = [tmpfile EXCEPT !.state = "removed"]
    /\ pc' = "removed"
    /\ UNCHANGED <<fs, calls, headerStr, child, status, omg, readback>>

\* lines 130-136: on success rename the artifact and print its name; exit
\* with the Payload Encryptor's return code.  os.rename raises when the name
\* printed by the Payload Encryptor is no file.
Finish ==
    /\ pc = "removed"
    /\ IF Succeeded(child.rc)
       THEN \E renamed \in BOOLEAN :
               IF renamed /\ encFname(child.out) # << >>
               THEN /\ omg' = [renamed |-> TRUE,
                               from |-> encFname(child.out),
                               to |-> omgFileName(child.out),
                               printed |-> omgFileName(child.out)]
                    /\ status' = sys_exit(child.rc)
               ELSE /\ omg' = omg
                    /\ status' = 1
       ELSE /\ omg' = omg
            /\ status' = sys_exit(child.rc)
    /\ pc' = "exited"
    /\ UNCHANGED <<fs, calls, headerStr, tmpfile, child, readback>>

NextMain == CheckArgs \/ WriteHeader \/ RunEncryptor \/ RemoveTmp \/ Finish

SpecMain == InitMain /\ [][NextMain]_vars

(***************************************************************************)
(* Framing runs: a serialized header is framed and written to the handoff  *)
(* file (lines 116-119), and the reader reads it back.                     *)
(***************************************************************************)
MaxHeaderLen == 10   \* characters of the serialized header

FrameChars == {"#", "1", "{"}

InitFrame ==
    /\ headerStr \in SeqsOf(FrameChars, 1, MaxHeaderLen)
    /\ template = NoTemplate
    /\ dirE = << >>
    /\ keyE = 0
    /\ dirS = << >>
    /\ keyS = 0
    /\ romg = FALSE
    /\ pc = "dumped"
    /\ NoCalls(NotBuilt)
    /\ tmpfile = NoTmp
    /\ child = NoChild
    /\ status = -1
    /\ omg = NoOmg
    /\ readback = NotRead

WriteFramed ==
    /\ pc = "dumped"
    /\ tmpfile' = [state |-> "exists", data |-> FrameHeader(headerStr)]
    /\ pc' = "framed"
    /\ UNCHANGED <<fs, calls, headerStr, child, status, omg, readback>>

ReadHeader ==
    /\ pc = "framed"
    /\ readback' = ReadFramed(tmpfile.data)
    /\ pc' = "read"
    /\ UNCHANGED <<fs, calls, headerStr, tmpfile, child, status, omg>>

NextFrame == WriteFramed \/ ReadHeader

SpecFrame == InitFrame /\ [][NextFrame]_vars

(***************************************************************************)
(* Properties.                                                             *)
(***************************************************************************)
Loadable(dir, k) == k \in 1..Len(dir) /\ importKey(dir[k]).ok

\* the files of dir that hold the other half of the key pair of file k
Partners(dir, k) ==
    {i \in 1..Len(dir) :
        /\ importKey(dir[i]).ok
        /\ importKey(dir[i]).priv # importKey(dir[k]).priv
        /\ importKey(dir[i]).n = importKey(dir[k]).n}

FirstPartner(dir, k) ==
    CHOOSE i \in Partners(dir, k) : \A j \in Partners(dir, k) : i <= j

DigestOf(bytes) == Hex(hexdigest(get_sha256(bytes)))

\* all the complements of file k hold the same bytes
OneComplement(dir, k) ==
    Loadable(dir, k) =>
        \A i, j \in Partners(dir, k) : dir[i] = dir[j]

\* C1 as stated: whenever the other half of the input key's pair is a file of
\* the directory, the resolver returns the digest of that file's bytes, and
\* never the digest of the input key file.
C1_PartnerDigest ==
    (pc = "resolved" /\ Loadable(dirE, keyE)) =>
        \A i \in Partners(dirE, keyE) :
            /\ ret = DigestOf(dirE[i])
            /\ ret # DigestOf(dirE[keyE])

\* C1 amended: the resolver returns the digest of the first file in listing
\* order that is complementary to the input key; that is the digest of the
\* pair's other file whenever every complementary file of the directory holds
\* the same bytes as it; it is never the digest of the input key file.
C1_FirstPartnerDigest ==
    (pc = "resolved" /\ Loadable(dirE, keyE) /\ Partners(dirE, keyE) # {}) =>
        /\ ret = DigestOf(dirE[FirstPartner(dirE, keyE)])
        /\ ret # DigestOf(dirE[keyE])
        /\ \A i \in Partners(dirE, keyE) :
              (\A j \in Partners(dirE, keyE) : dirE[j] = dirE[i])
                  => ret = DigestOf(dirE[i])

C1_Witness ==
    /\ pc = "resolved"
    /\ Loadable(dirE, keyE)
    /\ ~importKey(dirE[keyE]).priv
    /\ Cardinality(Partners(dirE, keyE)) = 1
    /\ Len(dirE) = 3
    /\ FirstPartner(dirE, keyE) > keyE
    /\ ret = DigestOf(dirE[FirstPartner(dirE, keyE)])

\* C2: the input key loads and no file of its directory is complementary to
\* it: the resolver returns None and does not raise.
C2_NoComplementNone ==
    (pc = "resolved" /\ Loadable(dirE, keyE) /\ Partners(dirE, keyE) = {}) =>
        ret = None

C2_Witness ==
    /\ pc = "resolved"
    /\ ret = None
    /\ Loadable(dirE, keyE)
    /\ \E i \in 1..Len(dirE) :
          /\ i # keyE
          /\ importKey(dirE[i]).ok
          /\ importKey(dirE[i]).priv = importKey(dirE[keyE]).priv
          /\ importKey(dirE[i]).n = importKey(dirE[keyE]).n
    /\ \E i \in 1..Len(dirE) :
          /\ importKey(dirE[i]).ok
          /\ importKey(dirE[i]).priv # importKey(dirE[keyE]).priv
          /\ importKey(dirE[i]).n # importKey(dirE[keyE]).n

\* C3: for a loadable input key, after junk files were added to the
\* directory, at any position of the listing, the resolver does not raise and
\* returns what it returned before.
C3_JunkIgnored ==
    (pc = "resolved" /\ env > 0 /\ Loadable(dirE, keyE)) =>
        /\ ret.t # "raise"
        /\ ret = ret0

C3_Witness ==
    /\ pc = "resolved"
    /\ env > 0
    /\ Len(dirE) = MaxFiles + 1
    /\ dirE[1] \in JunkBytes
    /\ ret.t = "hex"
    /\ ret = ret0

KeyLoadErrors == {"IOError", "ValueError"}

Parses(v) == v.t \notin {"missing", "invalid"}

\* C4 as stated: for every template that parses as JSON, an encryption key
\* or signing key that cannot be loaded makes build_header fail with the
\* key-load error.
C4_KeyErrorAnyTemplate ==
    (/\ pc = "built"
     /\ Parses(template)
     /\ (~Loadable(dirE, keyE) \/ ~Loadable(dirS, keyS))) =>
        (ret.t = "raise" /\ ret.exc \in KeyLoadErrors)

\* C4 amended: for every template that parses to a truthy JSON value,
\* build_header fails with the key-load error when the encryption key cannot
\* be loaded, and, the template being an object, when the signing key cannot
\* be loaded.
C4_KeyErrorTruthyTemplate ==
    (/\ pc = "built"
     /\ Parses(template)
     /\ template \notin FalsyTemplates
     /\ \/ ~Loadable(dirE, keyE)
        \/ template.t = "obj" /\ ~Loadable(dirS, keyS)) =>
        (ret.t = "raise" /\ ret.exc \in KeyLoadErrors)

C4_Witness ==
    /\ pc = "built"
    /\ template = TVersion
    /\ Loadable(dirE, keyE)
    /\ Partners(dirE, keyE) # {}
    /\ keyS > 0
    /\ ~Loadable(dirS, keyS)
    /\ \E i \in 1..Len(dirS) : importKey(dirS[i]).ok
    /\ ret = Failed("ValueError")

\* C5: a template that parses to a falsy JSON value (null, {}, [], 0, "",
\* false) makes build_header return None, without an error.
C5_FalsyAbsent ==
    (pc = "built" /\ template \in FalsyTemplates) => ret = Absent

C5_Witness ==
    /\ pc = "built"
    /\ template = TEmptyObj
    /\ ~Loadable(dirE, keyE)
    /\ ret = Absent

\* the value the header records for the key file k of dir
ExpectedHash(dir, k) ==
    IF Partners(dir, k) = {}
    THEN JNull
    ELSE JStr(hexdigest(get_sha256(dir[FirstPartner(dir, k)])))

HashFields == {"encryptionKeyHash", "signatureKeyHash"}

\* the header holds the two hashes, each of its own key, besides the
\* template's fields
Stamped(keep) ==
    /\ ret.t = "header"
    /\ DOMAIN ret.h = DOMAIN template.o \cup HashFields
    /\ \A f \in keep : ret.h[f] = template.o[f]
    /\ ret.h["encryptionKeyHash"] = ExpectedHash(dirE, keyE)
    /\ ret.h["signatureKeyHash"] = ExpectedHash(dirS, keyS)
    /\ ret.h["encryptionKeyHash"] # JStr(hexdigest(get_sha256(dirE[keyE])))
    /\ ret.h["signatureKeyHash"] # JStr(hexdigest(get_sha256(dirS[keyS])))

NonEmptyObject(v) == v.t = "obj" /\ DOMAIN v.o # {}

\* C6 as stated: for a non-empty object template and two loadable keys the
\* header holds every template field unchanged plus the two hash fields,
\* encryptionKeyHash of the encryption key and signatureKeyHash of the
\* signing key, each the digest of the complement or None.
C6_AllFieldsKept ==
    (/\ pc = "built"
     /\ NonEmptyObject(template)
     /\ Loadable(dirE, keyE)
     /\ Loadable(dirS, keyS)) =>
        Stamped(DOMAIN template.o)

\* C6 amended: every template field other than encryptionKeyHash and
\* signatureKeyHash is unchanged; these two are set, replacing a value the
\* template gave them.
C6_OtherFieldsKept ==
    (/\ pc = "built"
     /\ NonEmptyObject(template)
     /\ Loadable(dirE, keyE)
     /\ Loadable(dirS, keyS)) =>
        Stamped(DOMAIN template.o \ HashFields)

C6_Witness ==
    /\ pc = "built"
    /\ template = TStamped
    /\ ret.t = "header"
    /\ ret.h["version"] = JNum(1)
    /\ ret.h["encryptionKeyHash"].t = "str"
    /\ ret.h["signatureKeyHash"].t = "str"
    /\ ret.h["encryptionKeyHash"] # ret.h["signatureKeyHash"]
    /\ ret.h["encryptionKeyHash"] # template.o["encryptionKeyHash"]

\* C7 as stated: a second run on the same files, listed in any other order,
\* returns the header the first run returned.
C7_SameHeaderAnyOrder ==
    (pc = "built" /\ env = 1) => ret = ret0

\* C7 amended: a second run on the same files, listed in any other order,
\* returns the header the first run returned, provided that in each key's
\* directory all the files complementary to the key hold the same bytes.
C7_SameHeaderOneComplement ==
    (/\ pc = "built"
     /\ env = 1
     /\ OneComplement(dirE, keyE)
     /\ OneComplement(dirS, keyS)) =>
        ret = ret0

C7_Witness ==
    /\ pc = "built"
    /\ env = 1
    /\ Len(dirE) = 3
    /\ Cardinality(Partners(dirE, keyE)) = 1
    /\ Cardinality(Partners(dirS, keyS)) = 1
    /\ \E i \in 1..Len(dirE) : ~importKey(dirE[i]).ok
    /\ ret.t = "header"
    /\ ret.h["encryptionKeyHash"].t = "str"
    /\ ret = ret0

\* C8: once the handoff file is created, it is deleted before the process
\* ends, on every exit path.
C8_TmpRemovedAtExit ==
    (pc = "exited" /\ tmpfile.state # "none") => tmpfile.state = "removed"

\* C9: the Payload Encryptor ran and exited with a nonzero status: the
\* process exits with that status, renames nothing and prints no name.
C9_StatusPropagated ==
    (pc = "exited" /\ child.ran /\ child.rc > 0) =>
        /\ status = child.rc
        /\ ~omg.renamed
        /\ omg.printed = << >>

C9_Witness ==
    /\ pc = "exited"
    /\ child.ran
    /\ child.rc = 255
    /\ child.out # << >>
    /\ status = 255
    /\ tmpfile.state = "removed"

\* C10: the handoff file holds the decimal length of the serialized header,
\* one '#', then the header; splitting at the first '#' and reading that many
\* bytes gives back the header, with nothing left over.
C10_FramingRoundTrip ==
    /\ pc \in {"framed", "read"} =>
          \E p \in 2..Len(tmpfile.data) :
              /\ tmpfile.data[p] = "#"
              /\ \A i \in 1..(p - 1) : IsDigit(tmpfile.data[i])
              /\ ParseInt(SubSeq(tmpfile.data, 1, p - 1)) = Len(headerStr)
              /\ SubSeq(tmpfile.data, p + 1, Len(tmpfile.data)) = headerStr
    /\ pc = "read" =>
          readback = [ok |-> TRUE, body |-> headerStr, rest |-> << >>]

C10_Witness ==
    /\ pc = "read"
    /\ Len(headerStr) = 10
    /\ headerStr[1] = "1"
    /\ headerStr[2] = "#"
    /\ headerStr[10] = "#"
    /\ readback.ok
    /\ readback.body = headerStr

====
